---- MODULE Spec2Model ----
(***************************************************************************)
(* PrimeVis: the prime generation and classification engine.               *)
(*                                                                         *)
(*   core/prime_generator.py   is_prime, generate_primes (sieve)           *)
(*   core/prime_classifier.py  the fourteen is_*_prime predicates and      *)
(*                             classify_prime                              *)
(*   core/image_generator.py   create_prime_grid, generate_statistics      *)
(*                                                                         *)
(* The sieve and the grid loop are modelled one loop iteration per step;   *)
(* the predicates are pure functions and are operators, computed the way   *)
(* the Python computes them (loops become RECURSIVE operators).            *)
(* All Python integers here are non-negative and far below 2^53, so        *)
(* math.sqrt and math.log2 are exact where the code truncates them.        *)
(***************************************************************************)
EXTENDS Integers, Sequences, FiniteSets, TLC

\* ---------------------------------------------------------------- bounds
\* generate_primes is called directly with every limit in -MaxNeg..MaxLimit
MaxLimit == 60
MaxNeg == 2
\* a generation pass runs with columns in 1..MaxColumns, rows in 1..MaxRows
MaxColumns == 6
MaxRows == 6
\* dot_size in 1..MaxDotSize, spacing in 0..MaxSpacing
MaxDotSize == 2
MaxSpacing == 1
\* classify_prime is called with n up to this far beyond the sieve's limit
MaxBeyond == 2
\* a generation pass is run up to MaxRuns times with the same arguments
MaxRuns == 2
\* is_happy_number is called directly with every n in 0..MaxHappy
MaxHappy == 50
\* is_factorial_prime called on its own: the largest argument
MaxFactorialArg == 725
\* nth_prime: the largest argument
MaxNth == 14
\* how many steps of an orbit the properties look at
OrbitSteps == 20

\* ------------------------------------------------- arithmetic of the code
\* int(math.sqrt(x)) for x >= 0: the floor of the square root
RECURSIVE int_sqrt(_)
int_sqrt(x) ==
    IF x < 2 THEN x
    ELSE LET s == 2 * int_sqrt(x \div 4)
         IN IF (s + 1) * (s + 1) > x THEN s ELSE s + 1

\* a & b on non-negative integers
RECURSIVE BitAnd(_, _)
BitAnd(a, b) ==
    IF a = 0 \/ b = 0 THEN 0
    ELSE (a % 2) * (b % 2) + 2 * BitAnd(a \div 2, b \div 2)

\* int(math.log2(x)) for x >= 1
RECURSIVE int_log2(_)
int_log2(x) == IF x <= 1 THEN 0 ELSE 1 + int_log2(x \div 2)

\* str(n): the decimal digits of n >= 0, most significant first
RECURSIVE str(_)
str(n) == IF n < 10 THEN <<n>> ELSE Append(str(n \div 10), n % 10)

\* int(s) for a digit string s
RECURSIVE int_of(_)
int_of(s) ==
    IF Len(s) = 0 THEN 0
    ELSE 10 * int_of(SubSeq(s, 1, Len(s) - 1)) + s[Len(s)]

\* s[::-1]
reversed(s) == [k \in 1..Len(s) |-> s[Len(s) + 1 - k]]

\* ------------------------------------------------------ prime_generator.py
\* the 6k +- 1 loop of is_prime, entered with i = 5
RECURSIVE is_prime_loop(_, _)
\* faulty variant: the loop tests i alone and forgets i + 2
is_prime_loop_only_i(n, i) ==
    IF i * i <= n
    THEN IF n % i = 0 THEN FALSE ELSE is_prime_loop(n, i + 6)
    ELSE TRUE

is_prime_loop(n, i) ==
    IF i * i <= n
    THEN IF n % i = 0 \/ n % (i + 2) = 0 THEN FALSE ELSE is_prime_loop(n, i + 6)
    ELSE TRUE

is_prime(n) ==
    IF n <= 1 THEN FALSE
    ELSE IF n <= 3 THEN TRUE
    ELSE IF n % 2 = 0 \/ n % 3 = 0 THEN FALSE
    ELSE is_prime_loop(n, 5)

\* ----------------------------------------------------- prime_classifier.py
is_twin_prime(n, primes_set) ==
    n \in primes_set /\ ((n - 2) \in primes_set \/ (n + 2) \in primes_set)

is_mersenne_prime(n) ==
    IF ~is_prime(n) THEN FALSE
    ELSE LET n_plus_1 == n + 1
         IN IF BitAnd(n_plus_1, n_plus_1 - 1) # 0 THEN FALSE
            ELSE is_prime(int_log2(n + 1))

is_safe_prime(n) == n > 2 /\ is_prime(n) /\ is_prime((n - 1) \div 2)

is_sophie_germain_prime(n) == is_prime(n) /\ is_prime(2 * n + 1)

is_palindromic_prime(n) == is_prime(n) /\ str(n) = reversed(str(n))

\* the rotation loop of is_circular_prime, for i in range(1, len(str_n))
RECURSIVE circular_loop(_, _)
circular_loop(str_n, i) ==
    IF i >= Len(str_n) THEN TRUE
    ELSE LET rotated == int_of(SubSeq(str_n, i + 1, Len(str_n)) \o SubSeq(str_n, 1, i))
         IN IF ~is_prime(rotated) THEN FALSE ELSE circular_loop(str_n, i + 1)

is_circular_prime(n) ==
    IF ~is_prime(n) THEN FALSE
    ELSE IF Len(str(n)) = 1 THEN TRUE
    ELSE circular_loop(str(n), 1)

\* the search cap of is_factorial_prime: while ... and i < 20
FactorialCap == 20

\* the while loop of is_factorial_prime, entered with factorial = 1, i = 1
RECURSIVE factorial_loop(_, _, _)
\* faulty variant: only k! - 1 is tested, k! + 1 is forgotten
factorial_loop_minus_only(n, factorial, i) ==
    IF factorial < n + 1 /\ i < FactorialCap
    THEN LET f == factorial * i
         IN IF n = f - 1 THEN TRUE
            ELSE factorial_loop(n, f, i + 1)
    ELSE FALSE

\* faulty variant: the exit test looks at the product the body is about to form
factorial_loop_exit_early(n, factorial, i) ==
    IF factorial * i < n + 1 /\ i < FactorialCap
    THEN LET f == factorial * i
         IN IF n = f - 1 \/ n = f + 1 THEN TRUE
            ELSE factorial_loop(n, f, i + 1)
    ELSE FALSE

factorial_loop(n, factorial, i) ==
    IF factorial < n + 1 /\ i < FactorialCap
    THEN LET f == factorial * i
         IN IF n = f - 1 \/ n = f + 1 THEN TRUE
            ELSE factorial_loop(n, f, i + 1)
    ELSE FALSE

is_factorial_prime(n) ==
    IF ~is_prime(n) THEN FALSE ELSE factorial_loop(n, 1, 1)

is_perfect_square(x) == LET sqrt_x == int_sqrt(x) IN sqrt_x * sqrt_x = x

is_fibonacci_prime(n) ==
    IF ~is_prime(n) THEN FALSE
    ELSE is_perfect_square(5 * n * n + 4) \/ is_perfect_square(5 * n * n - 4)

\* (faulty variant: the gap looked up is 12)
is_sexy_prime_gap_twelve(n, primes_set) ==
    is_prime(n) /\ ((n + 12) \in primes_set \/ (n - 12) \in primes_set)

is_sexy_prime(n, primes_set) ==
    is_prime(n) /\ ((n + 6) \in primes_set \/ (n - 6) \in primes_set)

\* math.sqrt(discriminant).is_integer() is "discriminant is a perfect
\* square"; ((-3 + s) / 6).is_integer() is "6 divides s - 3"
\* (faulty variant: the discriminant is 9 + 12n)
is_cuban_prime_wrong_discriminant(n) ==
    IF ~is_prime(n) THEN FALSE
    ELSE LET discriminant == 9 + 12 * n
             sqrt_discriminant == int_sqrt(discriminant)
         IN IF sqrt_discriminant * sqrt_discriminant # discriminant THEN FALSE
            ELSE (sqrt_discriminant - 3) % 6 = 0 /\ sqrt_discriminant - 3 >= 0

is_cuban_prime(n) ==
    IF ~is_prime(n) THEN FALSE
    ELSE LET discriminant == 9 + 12 * (n - 1)
             sqrt_discriminant == int_sqrt(discriminant)
         IN IF sqrt_discriminant * sqrt_discriminant # discriminant THEN FALSE
            ELSE (sqrt_discriminant - 3) % 6 = 0 /\ sqrt_discriminant - 3 >= 0

\* sum(int(digit) ** 2 for digit in str(n))
RECURSIVE digit_square_sum(_), digit_plain_sum(_)
\* faulty variant: the digits are summed without being squared
digit_plain_sum(n) ==
    IF n < 10 THEN n
    ELSE (n % 10) + digit_plain_sum(n \div 10)

digit_square_sum(n) ==
    IF n < 10 THEN n * n
    ELSE (n % 10) * (n % 10) + digit_square_sum(n \div 10)

\* the while loop of is_happy_number
RECURSIVE happy_loop(_, _)
happy_loop(n, seen) ==
    IF n # 1 /\ n \notin seen
    THEN happy_loop(digit_square_sum(n), seen \cup {n})
    ELSE n = 1

is_happy_number(n) == happy_loop(n, {})

is_happy_prime(n) == is_prime(n) /\ is_happy_number(n)

\* the for loop of is_chen_prime: the first divisor i decides
RECURSIVE chen_loop(_, _)
\* faulty variant: the cofactor of the first divisor is not tested
chen_loop_divisor_only(n_plus_2, i) ==
    IF i > int_sqrt(n_plus_2) THEN FALSE
    ELSE IF n_plus_2 % i = 0 THEN is_prime(i)
    ELSE chen_loop(n_plus_2, i + 1)

chen_loop(n_plus_2, i) ==
    IF i > int_sqrt(n_plus_2) THEN FALSE
    ELSE IF n_plus_2 % i = 0 THEN is_prime(i) /\ is_prime(n_plus_2 \div i)
    ELSE chen_loop(n_plus_2, i + 1)

is_chen_prime(n) ==
    IF ~is_prime(n) THEN FALSE
    ELSE LET n_plus_2 == n + 2
         IN IF is_prime(n_plus_2) THEN TRUE
            ELSE IF n_plus_2 < 4 THEN FALSE
            ELSE chen_loop(n_plus_2, 2)

is_wieferich_prime(n) ==
    IF ~is_prime(n) THEN FALSE ELSE n \in {1093, 3511}

\* faulty variant: only the neighbour above is looked up
is_isolated_prime_above_only(n, primes_set) ==
    is_prime(n) /\ (n + 2) \notin primes_set

is_isolated_prime(n, primes_set) ==
    is_prime(n) /\ (n - 2) \notin primes_set /\ (n + 2) \notin primes_set

\* faulty variant: the twin test is moved to the head of the chain
classify_prime_twin_first(n, primes_set) ==
    IF is_twin_prime(n, primes_set) THEN "twin_prime"
    ELSE IF is_mersenne_prime(n) THEN "mersenne_prime"
    ELSE IF is_factorial_prime(n) THEN "factorial_prime"
    ELSE IF is_wieferich_prime(n) THEN "wieferich_prime"
    ELSE IF is_fibonacci_prime(n) THEN "fibonacci_prime"
    ELSE IF is_sexy_prime(n, primes_set) THEN "sexy_prime"
    ELSE IF is_isolated_prime(n, primes_set) THEN "isolated_prime"
    ELSE IF is_safe_prime(n) THEN "safe_prime"
    ELSE IF is_sophie_germain_prime(n) THEN "sophie_germain_prime"
    ELSE IF is_chen_prime(n) THEN "chen_prime"
    ELSE IF is_palindromic_prime(n) THEN "palindromic_prime"
    ELSE IF is_circular_prime(n) THEN "circular_prime"
    ELSE IF is_cuban_prime(n) THEN "cuban_prime"
    ELSE IF is_happy_prime(n) THEN "happy_prime"
    ELSE "regular_prime"

\* faulty variant: the twin and sexy tests are exchanged
classify_prime_sexy_before_twin(n, primes_set) ==
    IF is_mersenne_prime(n) THEN "mersenne_prime"
    ELSE IF is_factorial_prime(n) THEN "factorial_prime"
    ELSE IF is_wieferich_prime(n) THEN "wieferich_prime"
    ELSE IF is_fibonacci_prime(n) THEN "fibonacci_prime"
    ELSE IF is_sexy_prime(n, primes_set) THEN "sexy_prime"
    ELSE IF is_twin_prime(n, primes_set) THEN "twin_prime"
    ELSE IF is_isolated_prime(n, primes_set) THEN "isolated_prime"
    ELSE IF is_safe_prime(n) THEN "safe_prime"
    ELSE IF is_sophie_germain_prime(n) THEN "sophie_germain_prime"
    ELSE IF is_chen_prime(n) THEN "chen_prime"
    ELSE IF is_palindromic_prime(n) THEN "palindromic_prime"
    ELSE IF is_circular_prime(n) THEN "circular_prime"
    ELSE IF is_cuban_prime(n) THEN "cuban_prime"
    ELSE IF is_happy_prime(n) THEN "happy_prime"
    ELSE "regular_prime"

\* faulty variant: one label is misspelt
classify_prime_mislabelled(n, primes_set) ==
    IF is_mersenne_prime(n) THEN "mersenne_prime"
    ELSE IF is_factorial_prime(n) THEN "factorial_prime"
    ELSE IF is_wieferich_prime(n) THEN "wieferich_prime"
    ELSE IF is_fibonacci_prime(n) THEN "fibonacci_prime"
    ELSE IF is_twin_prime(n, primes_set) THEN "twin_prime"
    ELSE IF is_sexy_prime(n, primes_set) THEN "sexy-prime"
    ELSE IF is_isolated_prime(n, primes_set) THEN "isolated_prime"
    ELSE IF is_safe_prime(n) THEN "safe_prime"
    ELSE IF is_sophie_germain_prime(n) THEN "sophie_germain_prime"
    ELSE IF is_chen_prime(n) THEN "chen_prime"
    ELSE IF is_palindromic_prime(n) THEN "palindromic_prime"
    ELSE IF is_circular_prime(n) THEN "circular_prime"
    ELSE IF is_cuban_prime(n) THEN "cuban_prime"
    ELSE IF is_happy_prime(n) THEN "happy_prime"
    ELSE "regular_prime"

\* lines 310-339: the elif chain
classify_prime(n, primes_set) ==
    IF is_mersenne_prime(n) THEN "mersenne_prime"
    ELSE IF is_factorial_prime(n) THEN "factorial_prime"
    ELSE IF is_wieferich_prime(n) THEN "wieferich_prime"
    ELSE IF is_fibonacci_prime(n) THEN "fibonacci_prime"
    ELSE IF is_twin_prime(n, primes_set) THEN "twin_prime"
    ELSE IF is_sexy_prime(n, primes_set) THEN "sexy_prime"
    ELSE IF is_isolated_prime(n, primes_set) THEN "isolated_prime"
    ELSE IF is_safe_prime(n) THEN "safe_prime"
    ELSE IF is_sophie_germain_prime(n) THEN "sophie_germain_prime"
    ELSE IF is_chen_prime(n) THEN "chen_prime"
    ELSE IF is_palindromic_prime(n) THEN "palindromic_prime"
    ELSE IF is_circular_prime(n) THEN "circular_prime"
    ELSE IF is_cuban_prime(n) THEN "cuban_prime"
    ELSE IF is_happy_prime(n) THEN "happy_prime"
    ELSE "regular_prime"

\* the set object passed as primes_set after a call of classify_prime or of a
\* predicate on n: the code only tests membership (in), so it is the same set
\* (faulty variant: the neighbour looked up is put into the set)
primes_set_after_call_adds_neighbour(n, primes_set) == primes_set \cup {n + 2}

primes_set_after_call(n, primes_set) == primes_set

\* ------------------------------------------------------------------ state
VARIABLES
    pc,            \* where the running operation is
    op,            \* the operation called: generate_primes_set, generate_visualization
    raised,        \* the exception that ended the operation, "none" if none;
                   \* the code has no raise statement here, so only a library
                   \* call (math.sqrt, math.log2, int) can set it
    limit,         \* generate_primes: its argument
    sieve,         \* generate_primes: the list sieve, indexed 0..limit
    i,             \* generate_primes: the outer loop variable
    j,             \* generate_primes: the inner loop variable
    primes,        \* the list generate_primes returned
    primes_set,    \* the set generate_primes_set returned
    columns, rows, dot_size, spacing,   \* the arguments of a generation pass
    total_positions,                    \* calculate_dimensions: columns * rows
    pos,           \* create_prime_grid: the loop variable
    prime_points,  \* create_prime_grid: the list of (x, y, prime_type)
    stats,         \* the dictionary generate_statistics returned
    cn, cres,      \* classify_prime called on its own: argument and result
    drawn,         \* draw_visualization: the fill colour of each dot drawn
    runs,          \* how many times the operation has been called
    prev_points, prev_stats, prev_cres,  \* what the call before returned
    hn0,           \* is_happy_number: its argument
    hn,            \* is_happy_number: the local n
    seen,          \* is_happy_number: the set seen
    hres,          \* is_happy_number: the value returned
    pn, pres,      \* the predicates called on their own: argument and results
    fn, fres,      \* is_factorial_prime called on its own: argument and result
    legacy,        \* Primes.gen_primes: the list self.primes
    nn, nres,      \* nth_prime: its argument and the value returned
    ui_state,      \* gui: the state option of each input widget of the control panel
    widx,          \* set_ui_state: the position of its loop in the widget list
    hgen,          \* on_generate_clicked: generate_visualization has been invoked
    hexc           \* on_generate_clicked: "none", or an exception "caught" by the
                   \* handler, or one "propagating" out of it

vars == <<pc, op, raised, limit, sieve, i, j, primes, primes_set, columns, rows,
          dot_size, spacing, total_positions, pos, prime_points, stats, cn, cres,
          drawn, runs, prev_points, prev_stats, prev_cres, hn0, hn, seen, hres,
          pn, pres, fn, fres, legacy, nn, nres, ui_state, widx, hgen, hexc>>

happy_vars == <<hn0, hn, seen, hres>>
pred_vars == <<pn, pres>>
fact_vars == <<fn, fres>>
\* the variables of the operations that run apart from a generation pass
nth_vars == <<nn, nres>>
gui_vars == <<ui_state, widx, hgen, hexc>>
ext_vars == <<fact_vars, legacy, nth_vars, gui_vars>>
prev_vars == <<prev_points, prev_stats, prev_cres>>

sieve_vars == <<limit, sieve, i, j, primes>>
pass_args == <<columns, rows, dot_size, spacing, total_positions>>

NoStats ==
    [width |-> 0, height |-> 0, grid_columns |-> 0, grid_rows |-> 0,
     total_positions |-> 0, total_primes |-> 0,
     density_num |-> 0, density_den |-> 1, prime_types |-> <<>>]

Init ==
    /\ pc = "idle"
    /\ op = "none"
    /\ raised = "none"
    /\ limit = 0
    /\ sieve = <<>>
    /\ i = 0
    /\ j = 0
    /\ primes = <<>>
    /\ primes_set = {}
    /\ columns = 0
    /\ rows = 0
    /\ dot_size = 0
    /\ spacing = 0
    /\ total_positions = 0
    /\ pos = 0
    /\ prime_points = <<>>
    /\ stats = NoStats
    /\ cn = 0
    /\ cres = "none"
    /\ drawn = <<>>
    /\ runs = 0
    /\ prev_points = <<>>
    /\ prev_stats = NoStats
    /\ prev_cres = "none"
    /\ hn0 = 0
    /\ hn = 0
    /\ seen = {}
    /\ hres = FALSE
    /\ pn = 0
    /\ pres = <<>>
    /\ fn = 0
    /\ fres = FALSE
    /\ legacy = <<>>
    /\ nn = 0
    /\ nres = 0
    /\ ui_state = [w \in {"cols_spinbox", "rows_spinbox", "dot_size_spinbox",
                          "spacing_spinbox"} |-> "normal"]
    /\ widx = 0
    /\ hgen = FALSE
    /\ hexc = "none"

\* --------------------------------------------- generate_primes, step by step
\* lines 47-53: the small-limit return, or the initial sieve
generate_primes_enter(l) ==
    /\ limit' = l
    /\ IF l < 2
       THEN /\ primes' = <<>>
            /\ pc' = "gp_return"
            /\ UNCHANGED <<sieve, i, j>>
       ELSE /\ sieve' = [k \in 0..l |-> k \notin {0, 1}]
            /\ i' = 2
            /\ pc' = "sieve_outer"
            /\ UNCHANGED <<j, primes>>

\* range(2, int(math.sqrt(limit)) + 1): the last value of i
\* (faulty variant: the loop stops one short)
outer_last_one_short(l) == int_sqrt(l) - 1

outer_last(l) == int_sqrt(l)

\* where the marking of the multiples of i starts: range(i*i, limit + 1, i)
\* (faulty variant: the square itself is skipped)
mark_start_after_square(k) == k * k + k

\* (faulty variant: the marking starts at i itself)
mark_start_at_self(k) == k

mark_start(k) == k * k

\* [i for i in range(limit + 1) if sieve[i]]
RECURSIVE collect_from(_, _, _)
collect_from(sv, k, l) ==
    IF k > l THEN <<>>
    ELSE IF sv[k] THEN <<k>> \o collect_from(sv, k + 1, l)
    ELSE collect_from(sv, k + 1, l)

collect(sv, l) == collect_from(sv, 0, l)

\* line 56-57: the next i of the outer loop, or the end of the loop
sieve_outer ==
    /\ pc = "sieve_outer"
    /\ IF i > outer_last(limit)
       THEN /\ pc' = "sieve_collect"
            /\ UNCHANGED <<i, j>>
       ELSE IF sieve[i]
       THEN /\ j' = mark_start(i)
            /\ pc' = "sieve_inner"
            /\ UNCHANGED i
       ELSE /\ i' = i + 1
            /\ UNCHANGED <<pc, j>>
    /\ UNCHANGED <<op, raised, limit, sieve, primes, primes_set, pass_args, pos,
                   prime_points, stats, cn, cres>>
    /\ UNCHANGED <<drawn, runs, prev_vars, happy_vars, pred_vars, ext_vars>>

\* lines 58-59: one multiple marked, or the end of the inner loop
sieve_inner ==
    /\ pc = "sieve_inner"
    /\ IF j <= limit
       THEN /\ sieve' = [sieve EXCEPT ![j] = FALSE]
            /\ j' = j + i
            /\ UNCHANGED <<pc, i>>
       ELSE /\ i' = i + 1
            /\ pc' = "sieve_outer"
            /\ UNCHANGED <<sieve, j>>
    /\ UNCHANGED <<op, raised, limit, primes, primes_set, pass_args, pos,
                   prime_points, stats, cn, cres>>
    /\ UNCHANGED <<drawn, runs, prev_vars, happy_vars, pred_vars, ext_vars>>

\* line 62: the primes are collected and returned
sieve_collect ==
    /\ pc = "sieve_collect"
    /\ primes' = collect(sieve, limit)
    /\ pc' = "gp_return"
    /\ UNCHANGED <<op, raised, limit, sieve, i, j, primes_set, pass_args, pos,
                   prime_points, stats, cn, cres>>
    /\ UNCHANGED <<drawn, runs, prev_vars, happy_vars, pred_vars, ext_vars>>

\* set(xs) for a list xs
set_of(xs) == {xs[k] : k \in 1..Len(xs)}

\* image_generator.py line 61: prime_points = [], a fresh list in every call
\* (faulty variant: the list of the call before is kept and extended)
stale_prime_points == prime_points

new_prime_points == <<>>

\* generate_primes_set line 75: set(generate_primes(limit)), back in the caller
generate_primes_set_return ==
    /\ pc = "gp_return"
    /\ op \in {"generate_primes_set", "generate_visualization"}
    /\ primes_set' = set_of(primes)
    /\ IF op = "generate_visualization"
       THEN /\ pos' = 0
            /\ prime_points' = new_prime_points
            /\ pc' = "grid"
       ELSE /\ pc' = "returned"
            /\ UNCHANGED <<pos, prime_points>>
    /\ UNCHANGED <<op, raised, sieve_vars, pass_args, stats, cn, cres>>
    /\ UNCHANGED <<drawn, runs, prev_vars, happy_vars, pred_vars, ext_vars>>

\* a call of generate_primes_set(l)
call_generate_primes_set ==
    /\ pc = "idle"
    /\ \E l \in (0 - MaxNeg)..MaxLimit :
        /\ op' = "generate_primes_set"
        /\ generate_primes_enter(l)
    /\ runs' = 1
    /\ UNCHANGED <<raised, primes_set, pass_args, pos, prime_points, stats, cn, cres>>
    /\ UNCHANGED <<drawn, prev_vars, happy_vars, pred_vars, ext_vars>>

\* ------------------------------------------------------ image_generator.py
\* calculate_dimensions: (image_width, image_height, total_positions)
calculate_dimensions(c, r, d, s) ==
    <<c * (d + s) - s, r * (d + s) - s, c * r>>

\* generate_visualization lines 190-194, create_prime_grid line 58:
\* the pass is entered and the sieve started on total_positions
call_generate_visualization ==
    /\ pc = "idle"
    /\ \E c \in 1..MaxColumns, r \in 1..MaxRows, d \in 1..MaxDotSize, s \in 0..MaxSpacing :
        /\ columns' = c
        /\ rows' = r
        /\ dot_size' = d
        /\ spacing' = s
        /\ total_positions' = calculate_dimensions(c, r, d, s)[3]
        /\ op' = "generate_visualization"
        /\ generate_primes_enter(calculate_dimensions(c, r, d, s)[3])
    /\ runs' = 1
    /\ UNCHANGED <<raised, primes_set, pos, prime_points, stats, cn, cres>>
    /\ UNCHANGED <<drawn, prev_vars, happy_vars, pred_vars, ext_vars>>

\* range(total_positions): the positions the loop of create_prime_grid visits
\* (faulty variant: the bound itself is visited too)
grid_range_inclusive(total) == 0..total

grid_range(total) == 0..(total - 1)

\* lines 64-65: the 2-D coordinates of a position
\* (faulty variant: x and y exchanged)
coords_swapped(p, c) == <<p \div c, p % c>>

coords(p, c) == <<p % c, p \div c>>

\* line 69: prime_points.append(point)
\* (faulty variant: the point is put at the head of the list)
list_prepend(xs, x) == <<x>> \o xs

list_append(xs, x) == Append(xs, x)

\* lines 62-69: one position of the grid, or the end of the loop
grid_step ==
    /\ pc = "grid"
    /\ IF pos \in grid_range(total_positions)
       THEN /\ LET x == coords(pos, columns)[1]
                   y == coords(pos, columns)[2]
               IN IF pos \in primes_set
                  THEN /\ prime_points' =
                              list_append(prime_points,
                                          <<x, y, classify_prime(pos, primes_set)>>)
                       /\ primes_set' = primes_set_after_call(pos, primes_set)
                  ELSE UNCHANGED <<prime_points, primes_set>>
            /\ pos' = pos + 1
            /\ UNCHANGED pc
       ELSE /\ pc' = "draw"
            /\ UNCHANGED <<pos, prime_points, primes_set>>
    /\ UNCHANGED <<op, raised, sieve_vars, pass_args, stats, cn, cres>>
    /\ UNCHANGED <<drawn, runs, prev_vars, happy_vars, pred_vars, ext_vars>>

\* config_manager.py lines 90-95: the colours of the default configuration
DefaultColors ==
    ("regular_prime" :> <<0, 0, 0>>) @@ ("twin_prime" :> <<255, 0, 0>>) @@
    ("mersenne_prime" :> <<0, 255, 0>>) @@ ("safe_prime" :> <<0, 0, 255>>)

\* line 106: tuple(colors.get(prime_type, (0, 0, 0)))
\* (faulty variant: the default is white)
color_of_default_white(colors, prime_type) ==
    IF prime_type \in DOMAIN colors THEN colors[prime_type] ELSE <<255, 255, 255>>

color_of(colors, prime_type) ==
    IF prime_type \in DOMAIN colors THEN colors[prime_type] ELSE <<0, 0, 0>>

\* draw_visualization lines 104-113: every dot with its pixel position and
\* fill colour, under the default configuration's colours; the image
\* itself and the file written are PIL's and are not modelled
draw_visualization ==
    /\ pc = "draw"
    /\ drawn' = [k \in 1..Len(prime_points) |->
                    <<prime_points[k][1] * (dot_size + spacing),
                      prime_points[k][2] * (dot_size + spacing),
                      color_of(DefaultColors, prime_points[k][3])>>]
    /\ pc' = "stats"
    /\ UNCHANGED <<op, raised, sieve_vars, primes_set, pass_args, pos, prime_points,
                   stats, cn, cres, runs, prev_vars, happy_vars, pred_vars, ext_vars>>

\* lines 147-149: prime_types[prime_type] = prime_types.get(prime_type, 0) + 1
RECURSIVE count_types(_, _, _)
\* faulty variant: the first point of a type is counted as 0
count_types_from_zero(points, k, prime_types) ==
    IF k > Len(points) THEN prime_types
    ELSE LET t == points[k][3]
         IN count_types(points, k + 1,
                IF t \in DOMAIN prime_types
                THEN [prime_types EXCEPT ![t] = @ + 1]
                ELSE prime_types @@ (t :> 0))

count_types(points, k, prime_types) ==
    IF k > Len(points) THEN prime_types
    ELSE LET t == points[k][3]
         IN count_types(points, k + 1,
                IF t \in DOMAIN prime_types
                THEN [prime_types EXCEPT ![t] = @ + 1]
                ELSE prime_types @@ (t :> 1))

\* "total_primes": len(prime_points)
\* (faulty variant: off by one)
total_primes_plus_one(points) == Len(points) + 1

total_primes_of(points) == Len(points)

\* line 159: (len(prime_points) / total_positions) * 100, kept as the
\* fraction <<numerator, denominator>>
\* (faulty variant: the ratio is not turned into a percentage)
density_as_ratio(points, total) == <<Len(points), total>>

density_of(points, total) == <<Len(points) * 100, total>>

\* generate_statistics; density is kept as density_num / density_den
generate_statistics ==
    /\ pc = "stats"
    /\ LET dims == calculate_dimensions(columns, rows, dot_size, spacing)
       IN stats' = [width |-> dims[1], height |-> dims[2],
                    grid_columns |-> columns, grid_rows |-> rows,
                    total_positions |-> dims[3],
                    total_primes |-> total_primes_of(prime_points),
                    density_num |-> density_of(prime_points, dims[3])[1],
                    density_den |-> density_of(prime_points, dims[3])[2],
                    prime_types |-> count_types(prime_points, 1, <<>>)]
    /\ pc' = "done"
    /\ UNCHANGED <<op, raised, sieve_vars, primes_set, pass_args, pos, prime_points,
                   cn, cres>>
    /\ UNCHANGED <<drawn, runs, prev_vars, happy_vars, pred_vars, ext_vars>>

\* classify_prime(n, primes_set) called on the set a generate_primes_set call
\* returned, with any n from 0 to a little beyond the limit
call_classify_prime ==
    /\ pc = "returned"
    /\ \E n \in 0..((IF limit < 0 THEN 0 ELSE limit) + MaxBeyond) :
        /\ cn' = n
        /\ cres' = classify_prime(n, primes_set)
        /\ primes_set' = primes_set_after_call(n, primes_set)
    /\ pc' = "classified"
    /\ runs' = 1
    /\ UNCHANGED <<op, raised, sieve_vars, pass_args, pos, prime_points, stats>>
    /\ UNCHANGED <<drawn, prev_vars, happy_vars, pred_vars, ext_vars>>

\* ------------------------------------------ is_happy_number, step by step
\* line 215: the condition of the while loop
\* (faulty variant: the test against seen is missing)
happy_continues_without_seen(n, sn) == n # 1

happy_continues(n, sn) == n # 1 /\ n \notin sn

\* a call of is_happy_number(n): line 214
call_is_happy_number ==
    /\ pc = "idle"
    /\ \E n \in 0..MaxHappy :
        /\ hn0' = n
        /\ hn' = n
    /\ seen' = {}
    /\ op' = "is_happy_number"
    /\ pc' = "happy"
    /\ runs' = 1
    /\ UNCHANGED <<raised, sieve_vars, primes_set, pass_args, pos, prime_points,
                   stats, cn, cres, drawn, prev_vars, hres, pred_vars, ext_vars>>

\* lines 215-218: one iteration of the loop, or the return
happy_step ==
    /\ pc = "happy"
    /\ IF happy_continues(hn, seen)
       THEN /\ seen' = seen \cup {hn}
            /\ hn' = digit_square_sum(hn)
            /\ UNCHANGED <<pc, hres>>
       ELSE /\ hres' = (hn = 1)
            /\ pc' = "happy_done"
            /\ UNCHANGED <<hn, seen>>
    /\ UNCHANGED <<op, raised, sieve_vars, primes_set, pass_args, pos, prime_points,
                   stats, cn, cres, drawn, runs, prev_vars, hn0, pred_vars, ext_vars>>

\* ------------------------------------ the predicates, called on their own
\* math.sqrt(x) raises ValueError (math domain error) for x < 0
sqrt_raises(x) == x < 0

\* math.log2(x) raises ValueError for x <= 0
log2_raises(x) == x <= 0

\* is_mersenne_prime line 45: math.log2(n + 1), reached after lines 36-42
is_mersenne_prime_raises(n) ==
    is_prime(n) /\ BitAnd(n + 1, n) = 0 /\ log2_raises(n + 1)

\* is_fibonacci_prime lines 157-160: math.sqrt of 5n^2 + 4, and of 5n^2 - 4
\* when the first is no square; reached after the is_prime test of line 152
is_fibonacci_prime_raises(n) ==
    /\ is_prime(n)
    /\ \/ sqrt_raises(5 * n * n + 4)
       \/ ~is_perfect_square(5 * n * n + 4) /\ sqrt_raises(5 * n * n - 4)

\* is_cuban_prime line 194: math.sqrt(discriminant), reached after the
\* is_prime test of line 187
\* (faulty variant: the is_prime test is missing)
is_cuban_prime_raises_unguarded(n) == sqrt_raises(9 + 12 * (n - 1))

is_cuban_prime_raises(n) == is_prime(n) /\ sqrt_raises(9 + 12 * (n - 1))

\* is_chen_prime line 257: math.sqrt(n_plus_2), reached after lines 244-255
is_chen_prime_raises(n) ==
    is_prime(n) /\ ~is_prime(n + 2) /\ n + 2 >= 4 /\ sqrt_raises(n + 2)

\* is_happy_number line 217: int(digit) raises ValueError on the sign of a
\* negative n
is_happy_number_raises(n) == n < 0

\* one of the predicates raises on (n, primes_set); the predicates not named
\* here call nothing that can raise
predicate_raises(n) ==
    \/ is_mersenne_prime_raises(n)
    \/ is_fibonacci_prime_raises(n)
    \/ is_cuban_prime_raises(n)
    \/ is_chen_prime_raises(n)
    \/ is_happy_number_raises(n)

\* the fourteen predicates and is_happy_number called on n and the set a
\* generate_primes_set call returned, n prime or not
call_predicates ==
    /\ pc = "returned"
    /\ \E n \in 0..((IF limit < 0 THEN 0 ELSE limit) + MaxBeyond) :
        /\ pn' = n
        /\ IF predicate_raises(n)
           THEN /\ raised' = "ValueError"
                /\ pres' = <<>>
           ELSE /\ raised' = "none"
                /\ pres' = <<is_mersenne_prime(n), is_factorial_prime(n),
                             is_wieferich_prime(n), is_fibonacci_prime(n),
                             is_twin_prime(n, primes_set), is_sexy_prime(n, primes_set),
                             is_isolated_prime(n, primes_set), is_safe_prime(n),
                             is_sophie_germain_prime(n), is_chen_prime(n),
                             is_palindromic_prime(n), is_circular_prime(n),
                             is_cuban_prime(n), is_happy_prime(n),
                             is_happy_number(n)>>
        /\ primes_set' = primes_set_after_call(n, primes_set)
    /\ pc' = "predicates"
    /\ runs' = 1
    /\ UNCHANGED <<op, sieve_vars, pass_args, pos, prime_points, stats,
                   cn, cres, drawn, prev_vars, happy_vars, ext_vars>>

\* is_factorial_prime(n) called on its own
call_is_factorial_prime ==
    /\ UNCHANGED gui_vars
    /\ pc = "idle"
    /\ \E n \in 0..MaxFactorialArg :
        /\ fn' = n
        /\ fres' = is_factorial_prime(n)
    /\ pc' = "factorial_done"
    /\ op' = "is_factorial_prime"
    /\ runs' = 1
    /\ UNCHANGED <<raised, sieve_vars, primes_set, pass_args, pos, prime_points,
                   stats, cn, cres, drawn, prev_vars, happy_vars, pred_vars, legacy,
                   nth_vars>>

\* ------------------------------------------------- nth_prime, step by step
\* line 102: int(n * (math.log(n) + math.log(math.log(n)))) for n = 6, 7, ...,
\* the values the floating-point expression has
NthLimitTable == <<14, 18, 22, 26, 31, 35, 40, 45, 50, 55, 60, 65, 71, 76>>

nth_limit(n) == NthLimitTable[n - 5]

\* line 111: the argument of the recursive call, return nth_prime(n)
nth_retry_arg(n) == n

\* lines 91-105: the argument check, the small cases, or the sieve started on
\* the estimated limit
call_nth_prime ==
    /\ UNCHANGED gui_vars
    /\ pc = "idle"
    /\ \E n \in 0..MaxNth :
        /\ nn' = n
        /\ IF n < 1
           THEN /\ raised' = "ValueError"
                /\ pc' = "nth_done"
                /\ UNCHANGED <<nres, sieve_vars>>
           ELSE IF n < 6
           THEN /\ nres' = <<2, 3, 5, 7, 11>>[n]
                /\ pc' = "nth_done"
                /\ UNCHANGED <<raised, sieve_vars>>
           ELSE /\ generate_primes_enter(nth_limit(n))
                /\ UNCHANGED <<raised, nres>>
    /\ op' = "nth_prime"
    /\ runs' = 1
    /\ UNCHANGED <<primes_set, pass_args, pos, prime_points, stats, cn, cres, drawn,
                   prev_vars, happy_vars, pred_vars, fact_vars, legacy>>

\* lines 108-111: the nth prime is returned, or nth_prime calls itself
nth_prime_check ==
    /\ UNCHANGED gui_vars
    /\ pc = "gp_return"
    /\ op = "nth_prime"
    /\ IF Len(primes) >= nn
       THEN /\ nres' = primes[nn]
            /\ pc' = "nth_done"
            /\ UNCHANGED <<nn, sieve_vars>>
       ELSE /\ nn' = nth_retry_arg(nn)
            /\ generate_primes_enter(nth_limit(nth_retry_arg(nn)))
            /\ UNCHANGED nres
    /\ UNCHANGED <<op, raised, primes_set, pass_args, pos, prime_points, stats, cn,
                   cres, drawn, runs, prev_vars, happy_vars, pred_vars, fact_vars,
                   legacy>>

\* --------------------------------- gui: on_generate_clicked, step by step
\* control_panel.py lines 153-158: the list widgets of set_ui_state
widgets == <<"cols_spinbox", "rows_spinbox", "dot_size_spinbox", "spacing_spinbox">>

\* the variables of the generation engine, which the handler's steps leave alone
engine_vars ==
    <<raised, sieve_vars, primes_set, pass_args, pos, prime_points, stats, cn, cres,
      drawn, runs, prev_vars, happy_vars, pred_vars, fact_vars, legacy, nth_vars>>

\* app.py lines 157-163: where control goes when the except block is done
\* (faulty variant: the controls are re-enabled at the end of the try block
\* only, so the handler returns from the except block)
after_except_returns == "h_returned"

after_except == "h_finally"

\* app.py lines 120-130: the settings are read, which fails on an entry that
\* is no number, and the try block is entered
call_on_generate_clicked ==
    /\ pc = "idle"
    /\ op' = "on_generate_clicked"
    /\ \E outcome \in {"ok", "raise"} :
        IF outcome = "ok"
        THEN /\ pc' = "h_disable"
             /\ widx' = 1
             /\ UNCHANGED hexc
        ELSE /\ pc' = "h_returned"
             /\ hexc' = "propagating"
             /\ UNCHANGED widx
    /\ UNCHANGED <<ui_state, hgen, engine_vars>>

\* control_panel.py lines 160-162: one widget configured, or the end of the
\* loop; called with tk.DISABLED at app.py line 132 and with tk.NORMAL at 163
set_ui_state ==
    /\ pc \in {"h_disable", "h_finally"}
    /\ IF widx <= Len(widgets)
       THEN /\ ui_state' = [ui_state EXCEPT ![widgets[widx]] =
                               IF pc = "h_disable" THEN "disabled" ELSE "normal"]
            /\ widx' = widx + 1
            /\ UNCHANGED pc
       ELSE /\ pc' = IF pc = "h_disable" THEN "h_generate" ELSE "h_returned"
            /\ UNCHANGED <<ui_state, widx>>
    /\ UNCHANGED <<op, hgen, hexc, engine_vars>>

\* app.py lines 138-146: generate_visualization returns the statistics or
\* raises (it writes the image file)
handler_generate ==
    /\ pc = "h_generate"
    /\ hgen' = TRUE
    /\ \E outcome \in {"ok", "raise"} :
        pc' = IF outcome = "ok" THEN "h_load" ELSE "h_except"
    /\ UNCHANGED <<op, ui_state, widx, hexc, engine_vars>>

\* app.py lines 149-155: load_image, update_statistics and the status line;
\* load_image catches IOError and OSError only
handler_load_and_update ==
    /\ pc = "h_load"
    /\ \E outcome \in {"ok", "raise"} :
        IF outcome = "ok"
        THEN /\ pc' = "h_finally"
             /\ widx' = 1
        ELSE /\ pc' = "h_except"
             /\ UNCHANGED widx
    /\ UNCHANGED <<op, ui_state, hgen, hexc, engine_vars>>

\* app.py lines 157-160: the except block, which may raise itself
handler_except ==
    /\ pc = "h_except"
    /\ \E outcome \in {"ok", "raise"} :
        hexc' = IF outcome = "ok" THEN "caught" ELSE "propagating"
    /\ pc' = after_except
    /\ widx' = 1
    /\ UNCHANGED <<op, ui_state, hgen, engine_vars>>

\* ------------------------------------------- PrimeVis.py, Primes.gen_primes
\* line 23: range(p * 2, n + 1, p), the first multiple marked
\* (faulty variant: the marking starts at p itself)
legacy_mark_start_at_p(p) == p

legacy_mark_start(p) == p * 2

\* lines 23-24: the multiples of p marked in self.primes
legacy_mark(ps, p, n) ==
    [x \in 0..n |->
        IF x >= legacy_mark_start(p) /\ (x - legacy_mark_start(p)) % p = 0
        THEN FALSE ELSE ps[x]]

\* lines 17-25: the while loop, entered with p = 2
RECURSIVE legacy_loop(_, _, _)
legacy_loop(ps, p, n) ==
    IF p * p <= n
    THEN legacy_loop(IF ps[p] THEN legacy_mark(ps, p, n) ELSE ps, p + 1, n)
    ELSE ps

\* lines 27-28 index self.primes at 0 and 1: an IndexError when n < 1
gen_primes_raises(n) == n < 1

\* lines 13-28: self.primes after gen_primes, for n >= 1
gen_primes(n) ==
    [x \in 0..n |-> IF x \in {0, 1} THEN FALSE
                    ELSE legacy_loop([y \in 0..n |-> TRUE], 2, n)[x]]

\* Primes(limit).gen_primes() called with the bound of the generate_primes_set
\* call that has returned
call_gen_primes ==
    /\ UNCHANGED gui_vars
    /\ pc = "returned"
    /\ IF gen_primes_raises(limit)
       THEN /\ raised' = "IndexError"
            /\ legacy' = <<>>
       ELSE /\ raised' = "none"
            /\ legacy' = gen_primes(limit)
    /\ pc' = "legacy_done"
    /\ runs' = 1
    /\ UNCHANGED <<op, sieve_vars, primes_set, pass_args, pos, prime_points, stats,
                   cn, cres, drawn, prev_vars, happy_vars, pred_vars, fact_vars,
                   nth_vars>>

\* generate_visualization called again with the same arguments; the caller
\* keeps what the call before returned
rerun_generate_visualization ==
    /\ pc = "done"
    /\ runs < MaxRuns
    /\ prev_points' = prime_points
    /\ prev_stats' = stats
    /\ runs' = runs + 1
    /\ generate_primes_enter(calculate_dimensions(columns, rows, dot_size, spacing)[3])
    /\ UNCHANGED <<op, raised, primes_set, pass_args, pos, prime_points, stats, cn,
                   cres, drawn, prev_cres, happy_vars, pred_vars, ext_vars>>

\* classify_prime called again with the same arguments
recall_classify_prime ==
    /\ pc = "classified"
    /\ runs < MaxRuns
    /\ prev_cres' = cres
    /\ cres' = classify_prime(cn, primes_set)
    /\ primes_set' = primes_set_after_call(cn, primes_set)
    /\ runs' = runs + 1
    /\ UNCHANGED <<pc, op, raised, sieve_vars, pass_args, pos,
                   prime_points, stats, cn, drawn, prev_points, prev_stats,
                   happy_vars, pred_vars, ext_vars>>

Next ==
    \/ call_generate_primes_set
    \/ call_generate_visualization
    \/ sieve_outer
    \/ sieve_inner
    \/ sieve_collect
    \/ generate_primes_set_return
    \/ grid_step
    \/ draw_visualization
    \/ generate_statistics
    \/ call_classify_prime
    \/ rerun_generate_visualization
    \/ recall_classify_prime
    \/ call_is_happy_number
    \/ happy_step
    \/ call_predicates
    \/ call_is_factorial_prime
    \/ call_gen_primes
    \/ call_nth_prime
    \/ nth_prime_check
    \/ call_on_generate_clicked
    \/ set_ui_state
    \/ handler_generate
    \/ handler_load_and_update
    \/ handler_except

Spec == Init /\ [][Next]_vars

\* a loop that is running takes its next iteration
LiveSpec == Spec /\ WF_vars(happy_step)

\* ------------------------------------------- what the properties are about
\* the mathematical definition of a prime, independent of the code
Prime(n) == n >= 2 /\ \A d \in 2..(n - 1) : n % d # 0

\* generate_primes has returned its list
SieveReturned ==
    pc \in {"gp_return", "returned", "classified", "predicates", "legacy_done",
            "grid", "draw", "stats", "done"}

\* generate_primes_set has returned its set
SetReturned ==
    pc \in {"returned", "classified", "predicates", "legacy_done", "grid", "draw",
            "stats", "done"}

\* create_prime_grid has returned its point list
GridReturned == pc \in {"draw", "stats", "done"}

\* the bound of a generation pass: columns * rows
bound == columns * rows

\* the linear position an entry (x, y, prime_type) of the point list stands for
PositionOf(pt) == pt[2] * columns + pt[1]

\* the entries of the point list standing for position p
EntriesAt(p) == {k \in 1..Len(prime_points) : PositionOf(prime_points[k]) = p}

\* the fixed priority order of the families, and the predicate of each
FamilyOrder ==
    <<"mersenne_prime", "factorial_prime", "wieferich_prime", "fibonacci_prime",
      "twin_prime", "sexy_prime", "isolated_prime", "safe_prime",
      "sophie_germain_prime", "chen_prime", "palindromic_prime", "circular_prime",
      "cuban_prime", "happy_prime">>

FamilyHolds(k, n, ps) ==
    CASE k = 1 -> is_mersenne_prime(n)
      [] k = 2 -> is_factorial_prime(n)
      [] k = 3 -> is_wieferich_prime(n)
      [] k = 4 -> is_fibonacci_prime(n)
      [] k = 5 -> is_twin_prime(n, ps)
      [] k = 6 -> is_sexy_prime(n, ps)
      [] k = 7 -> is_isolated_prime(n, ps)
      [] k = 8 -> is_safe_prime(n)
      [] k = 9 -> is_sophie_germain_prime(n)
      [] k = 10 -> is_chen_prime(n)
      [] k = 11 -> is_palindromic_prime(n)
      [] k = 12 -> is_circular_prime(n)
      [] k = 13 -> is_cuban_prime(n)
      [] k = 14 -> is_happy_prime(n)

\* label r is the answer the priority order asks for on (n, ps)
IsFirstMatch(r, n, ps) ==
    \/ /\ r = "regular_prime"
       /\ \A k \in 1..Len(FamilyOrder) : ~FamilyHolds(k, n, ps)
    \/ \E k \in 1..Len(FamilyOrder) :
          /\ r = FamilyOrder[k]
          /\ FamilyHolds(k, n, ps)
          /\ \A m \in 1..(k - 1) : ~FamilyHolds(m, n, ps)

\* the fifteen labels
FamilyLabels == {FamilyOrder[k] : k \in 1..Len(FamilyOrder)} \cup {"regular_prime"}

\* every classification of a member of PrimeSet the state records: the
\* entries of the point list, and a classify_prime call on its own
Classified ==
    {<<PositionOf(prime_points[k]), prime_points[k][3]>> : k \in 1..Len(prime_points)}
    \cup (IF pc = "classified" /\ cn \in primes_set THEN {<<cn, cres>>} ELSE {})

\* ----------------------------------------------------------------- claims
\* C1: for every bound >= 0 generate_primes / generate_primes_set return
\* exactly the primes of [0, bound]: no composite, never 0 or 1, no prime
\* left out, nothing twice; bound = 30 gives 2,3,5,7,11,13,17,19,23,29 and
\* bound < 2 gives nothing.
C1_SieveExact ==
    /\ (SieveReturned /\ limit >= 0) =>
          /\ set_of(primes) = {n \in 0..limit : Prime(n)}
          /\ Len(primes) = Cardinality(set_of(primes))
          /\ 0 \notin set_of(primes) /\ 1 \notin set_of(primes)
          /\ limit < 2 => primes = <<>>
          /\ limit = 30 => primes = <<2, 3, 5, 7, 11, 13, 17, 19, 23, 29>>
    /\ (SetReturned /\ limit >= 0) => primes_set = {n \in 0..limit : Prime(n)}

C1_Witness ==
    /\ pc = "returned"
    /\ limit = 30
    /\ primes_set = {2, 3, 5, 7, 11, 13, 17, 19, 23, 29}

\* C2 as stated: the point list of create_prime_grid(bound, columns, rows)
\* has exactly one entry per prime p <= bound and no entry for any other
\* position.
C2_OnePerPrimeUpToBound ==
    GridReturned =>
        /\ \A p \in 0..bound : Prime(p) => Cardinality(EntriesAt(p)) = 1
        /\ \A k \in 1..Len(prime_points) : Prime(PositionOf(prime_points[k]))

\* C2 amended: the loop visits range(bound), so the point list has exactly
\* one entry per prime p < bound, no duplicates, and no entry for any other
\* position; a prime bound itself has no entry.
C2_OnePerPrimeBelowBound ==
    GridReturned =>
        /\ \A p \in 0..(bound - 1) : Prime(p) => Cardinality(EntriesAt(p)) = 1
        /\ \A k \in 1..Len(prime_points) :
              /\ Prime(PositionOf(prime_points[k]))
              /\ PositionOf(prime_points[k]) < bound
        /\ Len(prime_points) = Cardinality({p \in 0..(bound - 1) : Prime(p)})

C2_Witness ==
    /\ pc = "done"
    /\ Prime(bound)
    /\ bound \in primes_set
    /\ Len(prime_points) = 2
    /\ EntriesAt(bound) = {}

\* C3 as stated: after a pass total_primes equals the length of the point
\* list and the cardinality of the PrimeSet of bound = columns * rows.
C3_TotalIsPrimeSetSize ==
    pc = "done" =>
        /\ stats.total_primes = Len(prime_points)
        /\ stats.total_primes = Cardinality(primes_set)

\* C3 amended: after a pass total_primes equals the length of the point
\* list and the number of members of PrimeSet below bound, which is the
\* cardinality of PrimeSet less one when bound is itself prime.
C3_TotalIsPrimesBelowBound ==
    pc = "done" =>
        /\ stats.total_primes = Len(prime_points)
        /\ stats.total_primes = Cardinality(primes_set \ {bound})
        /\ stats.total_primes =
              Cardinality(primes_set) - (IF Prime(bound) THEN 1 ELSE 0)

C3_Witness ==
    /\ pc = "done"
    /\ bound \in primes_set
    /\ stats.total_primes = 2
    /\ Cardinality(primes_set) = 3

\* C4: for every n in PrimeSet classify_prime returns the label of the
\* first predicate true of n in the fixed order, so a label only when its
\* predicate holds and every earlier one fails, and regular_prime exactly
\* when all fourteen fail.
C4_FirstMatchWins ==
    SetReturned => \A c \in Classified : IsFirstMatch(c[2], c[1], primes_set)

C4_Witness ==
    /\ pc = "classified"
    /\ cn \in primes_set
    /\ cres = "isolated_prime"
    /\ \A m \in 1..6 : ~FamilyHolds(m, cn, primes_set)

\* C5: for every bound >= 2 and every n in PrimeSet classify_prime returns
\* one of the fifteen fixed labels.
C5_LabelInClosedSet ==
    (SetReturned /\ limit >= 2) => \A c \in Classified : c[2] \in FamilyLabels

C5_Witness ==
    /\ pc = "done"
    /\ limit >= 2
    /\ {"mersenne_prime", "factorial_prime", "fibonacci_prime", "twin_prime",
        "sexy_prime"} \subseteq {c[2] : c \in Classified}

\* C6 as stated: classify_prime(n, primes) with n not in primes (a
\* composite, 0 or 1) fails with InvalidCandidate and returns no label.
C6_NonMemberRaisesInvalidCandidate ==
    (pc = "classified" /\ cn \notin primes_set) =>
        /\ raised = "InvalidCandidate"
        /\ cres \notin FamilyLabels

\* C7 as stated: generate_primes(bound) fails with InvalidBound for every
\* bound < 0 and returns no result.
C7_NegativeBoundRaisesInvalidBound ==
    (SieveReturned /\ limit < 0) => raised = "InvalidBound"

\* the e with 2^e = m, or -1 when m is no power of two
RECURSIVE ExponentOfTwo(_)
ExponentOfTwo(m) ==
    IF m = 1 THEN 0
    ELSE IF m < 1 \/ m % 2 # 0 THEN -1
    ELSE LET e == ExponentOfTwo(m \div 2) IN IF e < 0 THEN -1 ELSE e + 1

\* n + 1 is a power of two whose exponent is prime
MersenneForm(n) == Prime(ExponentOfTwo(n + 1))

\* C8: for every N >= 0 and every n in 0..N, is_prime(n) is true exactly
\* when n is in generate_primes(N); is_prime is false for n <= 1 and true
\* for 2 and 3, and the 6k +- 1 loop rejects no prime.
C8_TrialDivisionAgreesWithSieve ==
    (SieveReturned /\ limit >= 0) =>
        \A n \in 0..limit :
            /\ is_prime(n) <=> n \in set_of(primes)
            /\ n <= 1 => ~is_prime(n)
            /\ n \in {2, 3} => is_prime(n)
            /\ Prime(n) => is_prime(n)

C8_Witness ==
    /\ pc = "returned"
    /\ limit >= 49
    /\ 49 \notin primes_set /\ ~is_prime(49)
    /\ 47 \in primes_set /\ is_prime(47)

\* C9: every prime n of PrimeSet with n + 1 a power of two of prime
\* exponent is classified mersenne_prime, also when a later predicate such
\* as twin_prime holds of it; classify_prime(7, primes up to 30) is
\* mersenne_prime although 7 is a twin of 5.
C9_MersenneWins ==
    /\ SetReturned =>
          \A c \in Classified : MersenneForm(c[1]) => c[2] = "mersenne_prime"
    /\ (pc = "classified" /\ limit = 30 /\ cn = 7) => cres = "mersenne_prime"

C9_Witness ==
    /\ pc = "classified"
    /\ limit = 30
    /\ cn = 7
    /\ cres = "mersenne_prime"
    /\ is_twin_prime(7, primes_set)
    /\ 5 \in primes_set

\* C10: classify_prime(2, primes up to 30) is factorial_prime: the mersenne
\* predicate rejects 2 and the factorial predicate accepts it (2 = 1! + 1).
C10_TwoIsFactorial ==
    /\ (pc = "classified" /\ limit = 30 /\ cn = 2) =>
          /\ cres = "factorial_prime"
          /\ ~is_mersenne_prime(cn)
          /\ is_factorial_prime(cn)
    /\ (GridReturned /\ bound = 30) =>
          \A k \in EntriesAt(2) : prime_points[k][3] = "factorial_prime"

C10_Witness ==
    /\ pc = "classified"
    /\ limit = 30
    /\ cn = 2
    /\ cres = "factorial_prime"

\* C11: every entry (x, y, family) of the point list has x = i mod columns
\* and y = i div columns for the position i it was made for, so
\* 0 <= x < columns, 0 <= y < rows, i = y*columns + x, and i is in PrimeSet.
C11_PointMatchesPosition ==
    /\ [](pc \in {"grid", "draw", "stats", "done"} =>
            \A k \in 1..Len(prime_points) :
                /\ 0 <= prime_points[k][1] /\ prime_points[k][1] < columns
                /\ 0 <= prime_points[k][2] /\ prime_points[k][2] < rows
                /\ PositionOf(prime_points[k]) \in primes_set)
    /\ [][(pc = "grid" /\ Len(prime_points') = Len(prime_points) + 1) =>
            LET pt == prime_points'[Len(prime_points')]
            IN /\ pt[1] = pos % columns
               /\ pt[2] = pos \div columns
               /\ pos = pt[2] * columns + pt[1]
               /\ pos \in primes_set]_vars

C11_Witness ==
    /\ pc = "done"
    /\ columns = 4
    /\ \E k \in 1..Len(prime_points) :
          prime_points[k][1] = 3 /\ prime_points[k][2] = 2

\* C12: columns = 6 and rows = 5 give exactly 10 points, one for each of
\* 2,3,5,7,11,13,17,19,23,29 at (p mod 6, p div 6), total_primes = 10,
\* total_positions = 30 and density = 10/30*100, i.e. density * 30 = 1000.
C12_SixByFive ==
    (pc = "done" /\ columns = 6 /\ rows = 5) =>
        /\ Len(prime_points) = 10
        /\ {PositionOf(prime_points[k]) : k \in 1..Len(prime_points)}
              = {2, 3, 5, 7, 11, 13, 17, 19, 23, 29}
        /\ \A k \in 1..Len(prime_points) :
              /\ prime_points[k][1] = PositionOf(prime_points[k]) % 6
              /\ prime_points[k][2] = PositionOf(prime_points[k]) \div 6
        /\ stats.total_primes = 10
        /\ stats.total_positions = 30
        /\ stats.density_num * 30 = 1000 * stats.density_den
        /\ stats.density_num * 3 = 100 * stats.density_den

C12_Witness ==
    /\ pc = "done"
    /\ columns = 6
    /\ rows = 5
    /\ stats.total_primes = 10
    /\ stats.density_den = 30

Larger(a, b) == IF a >= b THEN a ELSE b

\* C14: is_happy_number(n) terminates for every n >= 0: the loop leaves as
\* soon as the value is 1 or already in seen, every iteration adds a value
\* that seen did not hold, and the values stay below a fixed bound (three
\* digits give at most 3 * 81), so the loop ends without an iteration cap.
C14_HappyTerminates ==
    /\ (pc = "happy") ~> (pc = "happy_done")
    /\ [][(pc = "happy" /\ pc' = "happy") =>
            /\ hn \notin seen
            /\ seen' = seen \cup {hn}
            /\ Cardinality(seen') = Cardinality(seen) + 1]_vars
    /\ [][(pc = "happy" /\ pc' = "happy_done") => (hn = 1 \/ hn \in seen)]_vars
    /\ [](pc \in {"happy", "happy_done"} =>
            /\ hn <= Larger(hn0, 3 * 81)
            /\ \A v \in seen : v <= Larger(hn0, 3 * 81))

C14_Witness ==
    /\ pc = "happy_done"
    /\ hres = FALSE
    /\ hn \in seen
    /\ {4, 16, 37, 58, 89, 145, 42, 20} \subseteq seen

\* the sum of the squares of the decimal digits, by the definition
RECURSIVE SquareDigitSum(_)
SquareDigitSum(n) ==
    IF n = 0 THEN 0 ELSE (n % 10) * (n % 10) + SquareDigitSum(n \div 10)

\* the k-th value of the orbit of n
RECURSIVE Orbit(_, _)
Orbit(n, k) == IF k = 0 THEN n ELSE SquareDigitSum(Orbit(n, k - 1))

\* the orbit of n reaches 1
OrbitReachesOne(n) == \E k \in 0..OrbitSteps : Orbit(n, k) = 1

\* the orbit of n repeats a value before it has met 1, so it never meets 1
OrbitCyclesWithoutOne(n) ==
    \E b \in 1..OrbitSteps :
        /\ \E a \in 0..(b - 1) : Orbit(n, a) = Orbit(n, b)
        /\ \A k \in 0..b : Orbit(n, k) # 1

\* C15: for every n >= 1 is_happy_number(n) is true exactly when the orbit
\* of n under the sum of the squares of the digits contains 1, and false
\* when the orbit enters a cycle without 1 (4,16,37,58,89,145,42,20);
\* is_happy_prime(7) is true and is_happy_prime(11) is false.
C15_HappyIsOrbitReachesOne ==
    (pc = "happy_done" /\ hn0 >= 1) =>
        /\ hres <=> OrbitReachesOne(hn0)
        /\ ~hres <=> OrbitCyclesWithoutOne(hn0)
        /\ is_happy_number(hn0) = hres
        /\ hn0 = 7 => is_happy_prime(hn0)
        /\ hn0 = 11 => (~is_happy_prime(hn0) /\ 4 \in seen)

C15_Witness ==
    /\ pc = "happy_done"
    /\ hn0 = 7
    /\ hres = TRUE
    /\ seen = {7, 49, 97, 130, 10}

\* the sieve of the running pass is complete: every i up to the square root
\* of the limit has been processed, and PrimeSet is what the sieve marks
SieveComplete ==
    /\ primes_set = set_of(primes)
    /\ limit >= 2 =>
          /\ i * i > limit
          /\ primes_set = {c \in 0..limit : sieve[c]}
          /\ \A c \in 0..limit : sieve[c] <=> Prime(c)

\* C16: within a pass the sieve completes before any classification: a point
\* is classified only in the grid loop, which runs only after
\* generate_primes_set has returned the final PrimeSet.
C16_SieveBeforeClassification ==
    /\ [](pc = "grid" => SieveComplete)
    /\ [][Len(prime_points') = Len(prime_points) + 1 =>
            (pc = "grid" /\ SieveComplete)]_vars
    /\ [][(pc \in {"sieve_outer", "sieve_inner", "sieve_collect", "gp_return"}
            /\ prime_points' # prime_points) => prime_points' = <<>>]_vars

C16_Witness ==
    /\ pc = "grid"
    /\ limit = 30
    /\ i = 6
    /\ Len(prime_points) = 1

\* C17: the colour lookup of the drawing is total: a label without an entry
\* in the configured colours (the default configuration has four) gets the
\* default colour (0,0,0), and the lookup never fails.
C17_ColorLookupTotal ==
    /\ Cardinality(DOMAIN DefaultColors) = 4
    /\ \A label \in FamilyLabels \cup {"no_such_label"} :
          label \notin DOMAIN DefaultColors =>
              color_of(DefaultColors, label) = <<0, 0, 0>>
    /\ pc \in {"stats", "done"} =>
          /\ raised = "none"
          /\ Len(drawn) = Len(prime_points)
          /\ \A k \in 1..Len(drawn) :
                drawn[k][3] = (IF prime_points[k][3] \in DOMAIN DefaultColors
                               THEN DefaultColors[prime_points[k][3]]
                               ELSE <<0, 0, 0>>)

C17_Witness ==
    /\ pc = "done"
    /\ \E k \in 1..Len(drawn) :
          /\ prime_points[k][3] = "factorial_prime"
          /\ "factorial_prime" \notin DOMAIN DefaultColors
          /\ drawn[k][3] = <<0, 0, 0>>

\* C18: for every n >= 0 (0, 1 and composites too) and every PrimeSet, each
\* of the fourteen predicates and is_happy_number returns a boolean and
\* raises nothing.
C18_NoPredicateRaises ==
    pc = "predicates" =>
        /\ raised = "none"
        /\ Len(pres) = 15
        /\ \A k \in 1..Len(pres) : pres[k] \in BOOLEAN

C18_Witness ==
    /\ pc = "predicates"
    /\ pn = 0
    /\ raised = "none"
    /\ Len(pres) = 15

\* the sum of the values of a function with a finite domain
RECURSIVE SumOver(_, _)
SumOver(f, keys) ==
    IF keys = {} THEN 0
    ELSE LET key == CHOOSE x \in keys : TRUE
         IN f[key] + SumOver(f, keys \ {key})

\* C19: in the statistics of a pass prime_types[F] is the number of points
\* labelled F for every label F that occurs, no label without a point is a
\* key, and the counts sum to total_primes.
C19_TypeCountsExact ==
    pc = "done" =>
        LET labels == {prime_points[k][3] : k \in 1..Len(prime_points)}
        IN /\ DOMAIN stats.prime_types = labels
           /\ \A F \in labels :
                 stats.prime_types[F] =
                     Cardinality({k \in 1..Len(prime_points) : prime_points[k][3] = F})
           /\ \A F \in DOMAIN stats.prime_types : stats.prime_types[F] >= 1
           /\ SumOver(stats.prime_types, DOMAIN stats.prime_types) = stats.total_primes

C19_Witness ==
    /\ pc = "done"
    /\ DOMAIN stats.prime_types =
          {"mersenne_prime", "factorial_prime", "fibonacci_prime", "twin_prime"}
    /\ stats.prime_types["twin_prime"] = 4
    /\ stats.total_primes = 11

\* C20: the point list is in strictly ascending order of linear position.
C20_PointsAscending ==
    pc \in {"grid", "draw", "stats", "done"} =>
        \A k \in 1..(Len(prime_points) - 1) :
            PositionOf(prime_points[k]) < PositionOf(prime_points[k + 1])

C20_Witness ==
    /\ pc = "done"
    /\ Len(prime_points) >= 5
    /\ PositionOf(prime_points[1]) = 2
    /\ PositionOf(prime_points[Len(prime_points)]) = 31

\* a product of exactly two primes, possibly equal
Semiprime(m) ==
    \E a \in 2..m : \E b \in a..m : Prime(a) /\ Prime(b) /\ a * b = m

\* C21: for every prime n, is_chen_prime(n) is true exactly when n + 2 is
\* prime or a product of exactly two primes (possibly equal); testing the
\* smallest divisor of n + 2 and its cofactor decides this.
C21_ChenIsPrimeOrSemiprime ==
    (pc = "predicates" /\ Prime(pn)) =>
        (pres[10] <=> (Prime(pn + 2) \/ Semiprime(pn + 2)))

\* n + 2 = 45 = 3 * 3 * 5 has three prime factors
C21_Witness ==
    /\ pc = "predicates"
    /\ pn = 43
    /\ Len(pres) = 15
    /\ ~pres[10]

\* C22: for every prime n, is_cuban_prime(n) is true exactly when
\* n = 3m^2 + 3m + 1 for an integer m >= 0, that is when 9 + 12(n - 1) is a
\* square s*s with s - 3 a non-negative multiple of 6.
C22_CubanIsCentredHexagonal ==
    (pc = "predicates" /\ Prime(pn)) =>
        /\ pres[13] <=> (\E m \in 0..pn : pn = 3 * m * m + 3 * m + 1)
        /\ pres[13] <=> (\E s \in 3..(12 * pn) :
                            /\ s * s = 9 + 12 * (pn - 1)
                            /\ (s - 3) % 6 = 0)

C22_Witness ==
    /\ pc = "predicates"
    /\ pn = 37
    /\ Len(pres) = 15
    /\ pres[13]

\* k!, or some value above top once the product has passed top
RECURSIVE FactorialUpTo(_, _)
FactorialUpTo(k, top) ==
    IF k = 0 THEN 1
    ELSE LET f == FactorialUpTo(k - 1, top)
         IN IF f > top THEN f ELSE f * k

\* C23: for every prime n, is_factorial_prime(n) is true exactly when
\* n = k! - 1 or n = k! + 1 for some k with 1 <= k < 20: the early exit of
\* the loop skips no such k and nothing else is accepted.
C23_FactorialIsKFactorialPlusMinusOne ==
    (pc = "factorial_done" /\ Prime(fn)) =>
        (fres <=> (\E k \in 1..(FactorialCap - 1) :
                      \/ fn = FactorialUpTo(k, fn + 1) - 1
                      \/ fn = FactorialUpTo(k, fn + 1) + 1))

C23_Witness ==
    /\ pc = "factorial_done"
    /\ fn = 719
    /\ fres

\* C24: marking from i*i instead of 2*i changes nothing: for every bound >= 1
\* generate_primes(bound) and the legacy sieve Primes.gen_primes (marks from
\* 2*p, while p*p <= n) give the same set of primes.
C24_SieveAgreesWithLegacy ==
    (pc = "legacy_done" /\ limit >= 1) =>
        /\ raised = "none"
        /\ DOMAIN legacy = 0..limit
        /\ {k \in 0..limit : legacy[k]} = set_of(primes)
        /\ {k \in 0..limit : legacy[k]} = primes_set

C24_Witness ==
    /\ pc = "legacy_done"
    /\ limit = 50
    /\ Cardinality(primes_set) = 15
    /\ legacy[47]
    /\ ~legacy[49]

C26_PrimeSetReadOnly ==
    /\ [][(pc \in {"grid", "returned", "classified"}) =>
            (primes_set' = primes_set)]_vars
    /\ [](pc \in {"grid", "draw", "stats", "done", "classified", "predicates"} =>
            primes_set = set_of(primes))

\* the last position of the pass, 29 of 6 x 5, is a prime and was classified
C26_Witness ==
    /\ pc = "done"
    /\ total_positions = 30
    /\ Len(prime_points) = 10
    /\ PositionOf(prime_points[10]) = 29
    /\ primes_set = set_of(primes)

\* the first seven labels of the chain of classify_prime
FirstSevenLabels ==
    {"mersenne_prime", "factorial_prime", "wieferich_prime", "fibonacci_prime",
     "twin_prime", "sexy_prime", "isolated_prime"}

\* C27: for every n in PrimeSet exactly one of is_twin_prime and
\* is_isolated_prime is true, so classify_prime returns one of the first seven
\* labels for a member of PrimeSet, never one of the eight after them.
C27_TwinOrIsolated ==
    /\ SetReturned =>
          \A n \in primes_set :
              /\ is_twin_prime(n, primes_set) # is_isolated_prime(n, primes_set)
              /\ classify_prime(n, primes_set) \in FirstSevenLabels
    /\ (pc = "classified" /\ cn \in primes_set) => cres \in FirstSevenLabels
    /\ (pc = "predicates" /\ pn \in primes_set) => (pres[5] # pres[7])
    /\ pc \in {"grid", "draw", "stats", "done"} =>
          \A k \in 1..Len(prime_points) : prime_points[k][3] \in FirstSevenLabels

\* 11 with the primes up to 12: not twin (13 is beyond the bound), isolated,
\* and labelled by the test before is_isolated_prime
C27_Witness ==
    /\ pc = "predicates"
    /\ pn = 11
    /\ pn \in primes_set
    /\ Len(pres) = 15
    /\ ~pres[5]
    /\ pres[7]

\* the set generate_primes_set returns for a bound (C1)
PrimesUpTo(b) == {k \in 0..b : Prime(k)}

InSieve == pc \in {"sieve_outer", "sieve_inner", "sieve_collect"}

\* C29: in every intermediate state of the marking loops sieve[p] is still
\* True for every prime p <= limit, sieve[0] and sieve[1] are False and every
\* index written lies in 0..limit; once the outer loop has processed every
\* i <= floor(sqrt(limit)), sieve[c] is False for every composite c <= limit.
C29_SieveLoopInvariant ==
    /\ [](InSieve =>
            /\ DOMAIN sieve = 0..limit
            /\ ~sieve[0]
            /\ ~sieve[1]
            /\ \A p \in 2..limit : Prime(p) => sieve[p])
    /\ []((pc = "sieve_inner" /\ j <= limit) => j \in 0..limit)
    /\ [][(InSieve /\ sieve' # sieve) =>
            (/\ pc = "sieve_inner"
             /\ j \in 0..limit
             /\ sieve' = [sieve EXCEPT ![j] = FALSE])]_vars
    /\ []((InSieve /\ pc # "sieve_inner" /\ i * i > limit) =>
            \A c \in 2..limit : ~Prime(c) => ~sieve[c])

\* the multiples of 3 up to 12 are marked, 15 and 18 are not yet
C29_Witness ==
    /\ pc = "sieve_inner"
    /\ limit = 20
    /\ i = 3
    /\ j = 15
    /\ ~sieve[9]
    /\ ~sieve[12]
    /\ sieve[15]
    /\ sieve[19]

\* every input widget of the control panel has the given state
AllInputs(state) == \A k \in 1..Len(widgets) : ui_state[widgets[k]] = state

\* C30: in on_generate_clicked the inputs are DISABLED before
\* generate_visualization is invoked and NORMAL again on every path out of the
\* handler, whether generation and image loading succeed or raise; the handler
\* never returns leaving the inputs disabled.
C30_InputsReenabled ==
    /\ [](pc = "h_generate" => AllInputs("disabled"))
    /\ [][(hgen' /\ ~hgen) => AllInputs("disabled")]_vars
    /\ [](pc \in {"h_load", "h_except"} => AllInputs("disabled"))
    /\ [](pc = "h_returned" => AllInputs("normal"))

\* generation was invoked and raised, and the handler has returned
C30_Witness ==
    /\ pc = "h_returned"
    /\ hgen
    /\ hexc = "caught"
    /\ AllInputs("normal")

====
